---- MODULE Spec2Model ----
(***************************************************************************)
(* Task Copilot CLI (tools/tc): the task table, the dependency edges and   *)
(* the agent log of one SQLite database, and the commands                  *)
(* `tc task create|update|claim|next`, `tc task deps add|remove` and       *)
(* `tc handoff` run by independent processes, each on its own connection.  *)
(*                                                                         *)
(* tasks, deps and log are the committed database.  A write transaction    *)
(* needs the database's write lock (lock).  `task claim` takes it with     *)
(* BEGIN IMMEDIATE and holds it over several statements; its uncommitted   *)
(* changes live in txn until COMMIT or ROLLBACK.  The other commands write *)
(* in one implicit transaction that has no failure path between its first  *)
(* statement and its commit, so their write is one step; the reads they do *)
(* before that transaction are steps of their own.                         *)
(* Columns the commands below never read or compare (title, description,   *)
(* metadata, prd_id, parent_task_id, created_at, updated_at, details) are  *)
(* left out.  datetime('now') is the non-null value Now.                   *)
(***************************************************************************)
EXTENDS Integers, Sequences, FiniteSets, TLC

\* ---------------------------------------------------------------- values
NULL == "NULL"                 \* SQL NULL / Python None in a text column or option
NoStream == 0                  \* SQL NULL in stream_id (AUTOINCREMENT ids start at 1)
NoTask == 0                    \* no task row (ids start at 1)
NoPriority == 9                \* the option --priority was not given
Now == "now"                   \* datetime('now')
NoProc == "none"               \* nobody holds the write lock
NoTxn == <<>>                  \* no open claim transaction
NoExit == 9                    \* the process has not exited

Procs == {"p1", "p2"}          \* concurrently running CLI processes
Agents == {"me", "qa"}         \* agent names used on the command lines
Streams == {1}                 \* rows of the streams table (stream create is not modelled)
Statuses == {"pending", "in_progress", "completed", "blocked", "cancelled"}

MaxTasks == 2                  \* task create is disabled beyond this many rows
MaxLog == 2                    \* commands that may log are disabled beyond this many entries
FlowTasks == 3                 \* the number of tasks the agents' work loop starts with

EXIT_SUCCESS == 0
EXIT_ERROR == 1
EXIT_NOT_FOUND == 2
EXIT_CONFLICT == 3
EXIT_VALIDATION == 4

DefaultPriority == 2

VARIABLES tasks, deps, log, lock, txn, pc, args, row, exit, out, ret

vars == <<tasks, deps, log, lock, txn, pc, args, row, exit, out, ret>>

\* The committed database, the write lock and the open transaction.
db == <<tasks, deps, log, lock, txn>>

\* ---------------------------------------------------------------- helpers
TaskIds == 1..MaxTasks         \* ids a command line may name (a row exists once created)

Exists(tbl, t) == t \in 1..Len(tbl)

\* No command line (the process slot is free).
NoArgs == [cmd |-> "none"]

\* No row read yet (the columns of a task row a command keeps: agent, stream_id).
NoRow == [agent |-> NULL, stream_id |-> NoStream]

\* A row of agent_log as _log_action inserts it.
LogEntry(agent, task_id, action, stream_id) ==
    [agent |-> agent, stream_id |-> stream_id, task_id |-> task_id, action |-> action]

\* Room for one more log entry per command that is already running.
LogRoom == Len(log) + Cardinality({q \in Procs : pc[q] # "idle"}) < MaxLog

\* The write lock is held by another connection for longer than busy_timeout:
\* the statement raises sqlite3.OperationalError ("database is locked").
Busy(p) == lock \notin {NoProc, p}

\* A process starts a command: what the previous process in this slot left is gone.
Start(p, a, next_pc) ==
    /\ pc[p] = "idle"
    /\ pc' = [pc EXCEPT ![p] = next_pc]
    /\ args' = [args EXCEPT ![p] = a]
    /\ exit' = [exit EXCEPT ![p] = NoExit]
    /\ out' = [out EXCEPT ![p] = "none"]
    /\ ret' = [ret EXCEPT ![p] = NoTask]
    /\ UNCHANGED row

\* A process ends: its exit code, the kind of message it printed, and the task the
\* message names (task next, task claim).
Finish(p, code, msg, result) ==
    /\ pc' = [pc EXCEPT ![p] = "idle"]
    /\ args' = [args EXCEPT ![p] = NoArgs]
    /\ row' = [row EXCEPT ![p] = NoRow]
    /\ exit' = [exit EXCEPT ![p] = code]
    /\ out' = [out EXCEPT ![p] = msg]
    /\ ret' = [ret EXCEPT ![p] = result]

\* A command that is one step: it starts and ends in the same action.
Run(p, code, msg) ==
    /\ pc[p] = "idle"
    /\ Finish(p, code, msg, NoTask)

\* ---------------------------------------------------------------- init
\* connection.py init_db: the schema with empty tables.
Init ==
    /\ tasks = <<>>
    /\ deps = {}
    /\ log = <<>>
    /\ lock = NoProc
    /\ txn = NoTxn
    /\ pc = [p \in Procs |-> "idle"]
    /\ args = [p \in Procs |-> NoArgs]
    /\ row = [p \in Procs |-> NoRow]
    /\ exit = [p \in Procs |-> NoExit]
    /\ out = [p \in Procs |-> "none"]
    /\ ret = [p \in Procs |-> NoTask]

\* ---------------------------------------------------------------- task create
\* schema.py 29-44 and task.py 59-63: INSERT INTO tasks; every column the command
\* does not name takes its schema default (status 'pending', claimed_by and
\* claimed_at NULL).
NewTask(agent, priority, stream) ==
    [status |-> "pending", agent |-> agent, claimed_by |-> NULL, claimed_at |-> NULL,
     priority |-> priority, stream_id |-> stream]

\* task.py 34-73.
TaskCreate(p, agent, priority, stream) ==
    /\ Len(tasks) < MaxTasks
    /\ IF priority < 0 \/ priority > 3
         THEN Run(p, EXIT_VALIDATION, "validation") /\ UNCHANGED db
         ELSE IF Busy(p)
         THEN Run(p, EXIT_ERROR, "locked") /\ UNCHANGED db
         ELSE /\ tasks' = Append(tasks, NewTask(agent, priority, stream))
              /\ Run(p, EXIT_SUCCESS, "ok")
              /\ UNCHANGED <<deps, log, lock, txn>>

\* ---------------------------------------------------------------- task claim
\* Faulty variants of the WHERE clause: without the status test, with blocked tasks
\* claimable too, without the re-claim alternative, without the ownership test.
ClaimMatches_IgnoresStatus(tbl, t, a) ==
    /\ Exists(tbl, t)
    /\ (tbl[t].claimed_by = NULL \/ tbl[t].claimed_by = a)

ClaimMatches_AllowsBlocked(tbl, t, a) ==
    /\ Exists(tbl, t)
    /\ (tbl[t].claimed_by = NULL \/ tbl[t].claimed_by = a)
    /\ tbl[t].status \in {"pending", "blocked"}

ClaimMatches_UnclaimedOnly(tbl, t, a) ==
    /\ Exists(tbl, t)
    /\ tbl[t].claimed_by = NULL
    /\ tbl[t].status = "pending"

ClaimMatches_IgnoresOwner(tbl, t, a) ==
    /\ Exists(tbl, t)
    /\ tbl[t].status = "pending"

\* task.py 245-247: the WHERE clause of the conditional UPDATE.
ClaimMatches(tbl, t, a) ==
    /\ Exists(tbl, t)
    /\ (tbl[t].claimed_by = NULL \/ tbl[t].claimed_by = a)
    /\ tbl[t].status = "pending"

\* Faulty variant of the SET clause: claimed_at is not written.
ClaimSet_NoTimestamp(r, a) ==
    [r EXCEPT !.claimed_by = a, !.status = "in_progress", !.agent = a]

\* task.py 240-244: the SET clause of the conditional UPDATE.
ClaimSet(r, a) ==
    [r EXCEPT !.claimed_by = a, !.claimed_at = Now, !.status = "in_progress", !.agent = a]

\* task.py 280-286: the handler of `except Exception`.  typer.Exit is a RuntimeError,
\* so an error_exit(..., code) raised inside the try block lands here as well as an
\* sqlite3 error; the handler rolls back and exits through error_exit(str(e)), whose
\* code is the default EXIT_ERROR.
ClaimExceptExit(code) == EXIT_ERROR

\* Faulty variant of the rollback: the UPDATE was autocommitted, only the log entry is lost.
Rollback_KeepsUpdate ==
    /\ tasks' = txn.tasks
    /\ txn' = NoTxn
    /\ lock' = NoProc
    /\ UNCHANGED <<deps, log>>

\* Faulty variant of the rollback: the log entry written in the transaction stays.
Rollback_KeepsLog ==
    /\ log' = txn.log
    /\ txn' = NoTxn
    /\ lock' = NoProc
    /\ UNCHANGED <<tasks, deps>>

\* ROLLBACK (or the connection closing): the uncommitted changes are gone.
Rollback ==
    /\ txn' = NoTxn
    /\ lock' = NoProc
    /\ UNCHANGED <<tasks, deps, log>>

\* task.py 226-234: the command starts and opens its connection.
ClaimCall(p, t, a) ==
    /\ Start(p, [cmd |-> "claim", task |-> t, agent |-> a], "claim_begin")
    /\ UNCHANGED db

\* The same, while the log has room for the entry the claim may append.
ClaimStart(p, t, a) ==
    /\ LogRoom
    /\ ClaimCall(p, t, a)

\* task.py 237: BEGIN IMMEDIATE takes the write lock as soon as it is free.
ClaimBegin(p) ==
    /\ pc[p] = "claim_begin"
    /\ lock = NoProc
    /\ lock' = p
    /\ txn' = [tasks |-> tasks, log |-> log]
    /\ pc' = [pc EXCEPT ![p] = "claim_locked"]
    /\ UNCHANGED <<tasks, deps, log, args, row, exit, out, ret>>

\* task.py 237, 280-286: BEGIN IMMEDIATE waited busy_timeout for the lock and raises.
ClaimBusy(p) ==
    /\ pc[p] = "claim_begin"
    /\ Busy(p)
    /\ Finish(p, ClaimExceptExit(EXIT_ERROR), "locked", args[p].task)
    /\ UNCHANGED db

\* Faulty variant of the UPDATE: the WHERE clause lacks `id = ?`, so every row
\* that is pending and free for the agent is claimed and counted.
ClaimUpdate_AllRows(p) ==
    LET t == args[p].task
        a == args[p].agent
        hit == {u \in 1..Len(txn.tasks) : ClaimMatches(txn.tasks, u, a)}
        rowcount == Cardinality(hit)
    IN
    /\ pc[p] = "claim_locked"
    /\ IF rowcount # 1
         THEN /\ Rollback
              /\ Finish(p, ClaimExceptExit(EXIT_CONFLICT), "conflict", t)
         ELSE /\ txn' = [txn EXCEPT !.tasks = [u \in 1..Len(txn.tasks) |->
                                                 IF u \in hit THEN ClaimSet(txn.tasks[u], a)
                                                 ELSE txn.tasks[u]]]
              /\ pc' = [pc EXCEPT ![p] = "claim_updated"]
              /\ UNCHANGED <<tasks, deps, log, lock, args, row, exit, out, ret>>

\* task.py 238-262: the conditional UPDATE and the rowcount test.
ClaimUpdate(p) ==
    LET t == args[p].task
        a == args[p].agent
        rowcount == IF ClaimMatches(txn.tasks, t, a) THEN 1 ELSE 0
    IN
    /\ pc[p] = "claim_locked"
    /\ IF rowcount # 1
         THEN /\ Rollback
              /\ Finish(p, ClaimExceptExit(EXIT_CONFLICT), "conflict", t)
         ELSE /\ txn' = [txn EXCEPT !.tasks[t] = ClaimSet(@, a)]
              /\ pc' = [pc EXCEPT ![p] = "claim_updated"]
              /\ UNCHANGED <<tasks, deps, log, lock, args, row, exit, out, ret>>

\* Faulty variant of the log append: the entry does not carry the task's stream.
ClaimLog_NoStream(p) ==
    /\ pc[p] = "claim_updated"
    /\ txn' = [txn EXCEPT !.log = Append(@, LogEntry(args[p].agent, args[p].task,
                                                     "claimed", NoStream))]
    /\ pc' = [pc EXCEPT ![p] = "claim_logged"]
    /\ UNCHANGED <<tasks, deps, log, lock, args, row, exit, out, ret>>

\* task.py 265-268: read the row back and append the 'claimed' entry.
ClaimLog(p) ==
    LET t == args[p].task
        a == args[p].agent
        stream_id == IF Exists(txn.tasks, t) THEN txn.tasks[t].stream_id ELSE NoStream
    IN
    /\ pc[p] = "claim_updated"
    /\ txn' = [txn EXCEPT !.log = Append(@, LogEntry(a, t, "claimed", stream_id))]
    /\ pc' = [pc EXCEPT ![p] = "claim_logged"]
    /\ UNCHANGED <<tasks, deps, log, lock, args, row, exit, out, ret>>

\* Faulty variant of the commit: the transaction is never committed; the
\* connection closes, the changes are dropped and the command reports success.
ClaimCommit_NoCommit(p) ==
    /\ pc[p] = "claim_logged"
    /\ Rollback
    /\ Finish(p, EXIT_SUCCESS, "ok", args[p].task)

\* task.py 270-278: COMMIT publishes the update and the log entry together.
ClaimCommit(p) ==
    /\ pc[p] = "claim_logged"
    /\ tasks' = txn.tasks
    /\ log' = txn.log
    /\ txn' = NoTxn
    /\ lock' = NoProc
    /\ Finish(p, EXIT_SUCCESS, "ok", args[p].task)
    /\ UNCHANGED deps

\* task.py 265-270, 280-286: the log INSERT or the COMMIT raises an sqlite3 error
\* (disk full, I/O error); the handler rolls the transaction back.
ClaimFails(p) ==
    /\ pc[p] \in {"claim_updated", "claim_logged"}
    /\ Rollback
    /\ Finish(p, ClaimExceptExit(EXIT_ERROR), "error", args[p].task)

\* ---------------------------------------------------------------- task update
\* Faulty variant of the SET list: putting a task back to pending releases its claim.
UpdateSet_PendingReleasesClaim(r, status, agent, priority) ==
    [r EXCEPT !.status = IF status # NULL THEN status ELSE @,
              !.agent = IF agent # NULL THEN agent ELSE @,
              !.priority = IF priority # NoPriority THEN priority ELSE @,
              !.claimed_by = IF status = "pending" THEN NULL ELSE @,
              !.claimed_at = IF status = "pending" THEN NULL ELSE @]

\* Faulty variant of the SET list: moving an unclaimed task to in_progress also
\* records its assigned agent as the claimant.
UpdateSet_InProgressClaims(r, status, agent, priority) ==
    [r EXCEPT !.status = IF status # NULL THEN status ELSE @,
              !.agent = IF agent # NULL THEN agent ELSE @,
              !.priority = IF priority # NoPriority THEN priority ELSE @,
              !.claimed_by = IF status = "in_progress" /\ @ = NULL THEN r.agent ELSE @,
              !.claimed_at = IF status = "in_progress" /\ @ = NULL /\ r.agent # NULL
                               THEN Now ELSE @]

\* task.py 183-208: the SET list built from the options that were given.
UpdateSet(r, status, agent, priority) ==
    [r EXCEPT !.status = IF status # NULL THEN status ELSE @,
              !.agent = IF agent # NULL THEN agent ELSE @,
              !.priority = IF priority # NoPriority THEN priority ELSE @]

\* task.py 164-204: validation, the SELECT of the row, and the early returns.
\* The status test is `if status and status not in valid_statuses`: the empty
\* string is false in Python and passes it, and is then written like any status
\* (`if status is not None`, 185).
UpdateSelect(p, t, status, agent, priority) ==
    /\ UNCHANGED db
    /\ IF status # NULL /\ status # "" /\ status \notin Statuses
         THEN Run(p, EXIT_VALIDATION, "validation")
         ELSE IF priority # NoPriority /\ (priority < 0 \/ priority > 3)
         THEN Run(p, EXIT_VALIDATION, "validation")
         ELSE IF ~Exists(tasks, t)
         THEN Run(p, EXIT_NOT_FOUND, "not_found")
         ELSE IF status = NULL /\ agent = NULL /\ priority = NoPriority
         THEN Run(p, EXIT_SUCCESS, "ok")
         ELSE /\ pc[p] = "idle"
              /\ pc' = [pc EXCEPT ![p] = "update_write"]
              /\ args' = [args EXCEPT ![p] = [cmd |-> "update", task |-> t, status |-> status,
                                              agent |-> agent, priority |-> priority]]
              /\ row' = [row EXCEPT ![p] = IF status = "completed"
                                             THEN [agent |-> tasks[t].agent,
                                                   stream_id |-> tasks[t].stream_id]
                                             ELSE NoRow]
              /\ exit' = [exit EXCEPT ![p] = NoExit]
              /\ out' = [out EXCEPT ![p] = "none"]
              /\ ret' = [ret EXCEPT ![p] = NoTask]

\* The same, while the log has room for the entry the update may append.
UpdateRead(p, t, status, agent, priority) ==
    /\ (status = "completed" /\ Exists(tasks, t) /\ tasks[t].agent # NULL) => LogRoom
    /\ UpdateSelect(p, t, status, agent, priority)

\* Faulty variant of the completion log: the entry replaces the entries the log
\* already holds for the task (INSERT OR REPLACE keyed by the task).
UpdateWrite_ReplacesLogEntry(p) ==
    LET t == args[p].task
        Other(e) == e.task_id # t
    IN
    /\ pc[p] = "update_write"
    /\ lock = NoProc
    /\ tasks' = [tasks EXCEPT ![t] = UpdateSet(@, args[p].status, args[p].agent,
                                               args[p].priority)]
    /\ log' = IF args[p].status = "completed" /\ row[p].agent # NULL
                THEN Append(SelectSeq(log, Other),
                            LogEntry(row[p].agent, t, "completed", row[p].stream_id))
                ELSE log
    /\ Finish(p, EXIT_SUCCESS, "ok", NoTask)
    /\ UNCHANGED <<deps, lock, txn>>

\* Faulty variant of the completion log: completions are not logged.
UpdateWrite_NoCompletionLog(p) ==
    LET t == args[p].task IN
    /\ pc[p] = "update_write"
    /\ lock = NoProc
    /\ tasks' = [tasks EXCEPT ![t] = UpdateSet(@, args[p].status, args[p].agent,
                                               args[p].priority)]
    /\ Finish(p, EXIT_SUCCESS, "ok", NoTask)
    /\ UNCHANGED <<deps, log, lock, txn>>

\* task.py 206-223: the UPDATE, the 'completed' log entry for the agent read at
\* line 176, and the commit.  A status outside the CHECK list of schema.py 35
\* makes the UPDATE raise sqlite3.IntegrityError, which nothing catches: the
\* process ends with exit code 1 and the row is as it was.
UpdateWrite(p) ==
    LET t == args[p].task
        r == UpdateSet(tasks[t], args[p].status, args[p].agent, args[p].priority)
    IN
    /\ pc[p] = "update_write"
    /\ lock = NoProc
    /\ IF r.status \notin Statuses
         THEN /\ Finish(p, EXIT_ERROR, "error", NoTask)
              /\ UNCHANGED db
         ELSE /\ tasks' = [tasks EXCEPT ![t] = r]
              /\ log' = IF args[p].status = "completed" /\ row[p].agent # NULL
                          THEN Append(log, LogEntry(row[p].agent, t, "completed",
                                                    row[p].stream_id))
                          ELSE log
              /\ Finish(p, EXIT_SUCCESS, "ok", NoTask)
              /\ UNCHANGED <<deps, lock, txn>>

\* task.py 208: the UPDATE waited busy_timeout for the write lock; the
\* sqlite3.OperationalError is not caught.
UpdateBusy(p) ==
    /\ pc[p] = "update_write"
    /\ Busy(p)
    /\ Finish(p, EXIT_ERROR, "locked", NoTask)
    /\ UNCHANGED db

\* ---------------------------------------------------------------- handoff
\* handoff.py 27-37 (main.py 149-162): the SELECT of the task row.
HandoffRead(p, from_agent, to_agent, t) ==
    /\ LogRoom
    /\ UNCHANGED db
    /\ IF ~Exists(tasks, t)
         THEN Run(p, EXIT_NOT_FOUND, "not_found")
         ELSE /\ pc[p] = "idle"
              /\ pc' = [pc EXCEPT ![p] = "handoff_write"]
              /\ args' = [args EXCEPT ![p] = [cmd |-> "handoff", task |-> t,
                                              from |-> from_agent, to |-> to_agent]]
              /\ row' = [row EXCEPT ![p] = [agent |-> NULL,
                                            stream_id |-> tasks[t].stream_id]]
              /\ exit' = [exit EXCEPT ![p] = NoExit]
              /\ out' = [out EXCEPT ![p] = "none"]
              /\ ret' = [ret EXCEPT ![p] = NoTask]

\* Faulty variant of the handoff: the log entry names the receiving agent.
HandoffWrite_LogsReceiver(p) ==
    LET t == args[p].task IN
    /\ pc[p] = "handoff_write"
    /\ lock = NoProc
    /\ log' = Append(log, LogEntry(args[p].to, t, "handoff", row[p].stream_id))
    /\ tasks' = [tasks EXCEPT ![t].agent = args[p].to]
    /\ Finish(p, EXIT_SUCCESS, "ok", NoTask)
    /\ UNCHANGED <<deps, lock, txn>>

\* handoff.py 39-49 (main.py 164-173): the 'handoff' log entry, the UPDATE of the
\* assigned agent, and the commit.
HandoffWrite(p) ==
    LET t == args[p].task IN
    /\ pc[p] = "handoff_write"
    /\ lock = NoProc
    /\ log' = Append(log, LogEntry(args[p].from, t, "handoff", row[p].stream_id))
    /\ tasks' = [tasks EXCEPT ![t].agent = args[p].to]
    /\ Finish(p, EXIT_SUCCESS, "ok", NoTask)
    /\ UNCHANGED <<deps, lock, txn>>

\* handoff.py 39: the INSERT waited busy_timeout for the write lock (uncaught).
HandoffBusy(p) ==
    /\ pc[p] = "handoff_write"
    /\ Busy(p)
    /\ Finish(p, EXIT_ERROR, "locked", NoTask)
    /\ UNCHANGED db

\* ---------------------------------------------------------------- deps add / remove
\* Faulty variant: the self-dependency is left to the CHECK constraint of the
\* table, so the command first opens the store and looks the tasks up.
DepsAdd_SelfCheckInStore(p, t, d) ==
    /\ UNCHANGED <<tasks, log, lock, txn>>
    /\ IF ~Exists(tasks, t) \/ ~Exists(tasks, d)
         THEN Run(p, EXIT_NOT_FOUND, "not_found") /\ UNCHANGED deps
         ELSE IF Busy(p)
         THEN Run(p, EXIT_ERROR, "locked") /\ UNCHANGED deps
         ELSE IF t = d
         THEN Run(p, EXIT_VALIDATION, "validation") /\ UNCHANGED deps
         ELSE IF <<t, d>> \in deps
         THEN Run(p, EXIT_VALIDATION, "duplicate") /\ UNCHANGED deps
         ELSE Run(p, EXIT_SUCCESS, "ok") /\ deps' = deps \cup {<<t, d>>}

\* Faulty variant: the existence of the task depended on is not verified.
DepsAdd_TargetUnchecked(p, t, d) ==
    /\ UNCHANGED <<tasks, log, lock, txn>>
    /\ IF t = d
         THEN Run(p, EXIT_VALIDATION, "validation") /\ UNCHANGED deps
         ELSE IF ~Exists(tasks, t)
         THEN Run(p, EXIT_NOT_FOUND, "not_found") /\ UNCHANGED deps
         ELSE IF Busy(p)
         THEN Run(p, EXIT_ERROR, "locked") /\ UNCHANGED deps
         ELSE IF <<t, d>> \in deps
         THEN Run(p, EXIT_VALIDATION, "duplicate") /\ UNCHANGED deps
         ELSE Run(p, EXIT_SUCCESS, "ok") /\ deps' = deps \cup {<<t, d>>}

\* task.py 343-385.  The self-dependency is rejected before the store is opened
\* (350-351).  Tasks are never deleted, so the existence checks of lines 357-365
\* still hold when the INSERT runs; the primary key rejects a pair that is already
\* there ("Dependency already exists", 375-376).
DepsAdd(p, t, d) ==
    /\ UNCHANGED <<tasks, log, lock, txn>>
    /\ IF t = d
         THEN Run(p, EXIT_VALIDATION, "validation") /\ UNCHANGED deps
         ELSE IF ~Exists(tasks, t) \/ ~Exists(tasks, d)
         THEN Run(p, EXIT_NOT_FOUND, "not_found") /\ UNCHANGED deps
         ELSE IF Busy(p)
         THEN Run(p, EXIT_ERROR, "locked") /\ UNCHANGED deps
         ELSE IF <<t, d>> \in deps
         THEN Run(p, EXIT_VALIDATION, "duplicate") /\ UNCHANGED deps
         ELSE Run(p, EXIT_SUCCESS, "ok") /\ deps' = deps \cup {<<t, d>>}

\* task.py 388-415.
DepsRemove(p, t, d) ==
    LET rowcount == IF <<t, d>> \in deps THEN 1 ELSE 0 IN
    /\ UNCHANGED <<tasks, log, lock, txn>>
    /\ IF Busy(p)
         THEN Run(p, EXIT_ERROR, "locked") /\ UNCHANGED deps
         ELSE IF rowcount = 0
         THEN Run(p, EXIT_NOT_FOUND, "not_found") /\ UNCHANGED deps
         ELSE Run(p, EXIT_SUCCESS, "ok") /\ deps' = deps \ {<<t, d>>}

\* ---------------------------------------------------------------- task next
\* Faulty variants of the subquery: a cancelled dependency counts as satisfied; any
\* dependency edge blocks, whatever the status of its target.
HasIncompleteDep_CancelledSatisfies(tbl, dp, t) ==
    \E td \in dp : /\ td[1] = t
                   /\ Exists(tbl, td[2])
                   /\ tbl[td[2]].status \notin {"completed", "cancelled"}

HasIncompleteDep_AnyEdge(tbl, dp, t) ==
    \E td \in dp : td[1] = t /\ Exists(tbl, td[2])

\* Faulty variant of the subquery: a dependency that is in progress counts as met.
HasIncompleteDep_InProgressSatisfies(tbl, dp, t) ==
    \E td \in dp : /\ td[1] = t
                   /\ Exists(tbl, td[2])
                   /\ tbl[td[2]].status \notin {"completed", "in_progress"}

\* task.py 302-307: the NOT EXISTS subquery over task_dependencies JOIN tasks.
HasIncompleteDep(tbl, dp, t) ==
    \E td \in dp : /\ td[1] = t
                   /\ Exists(tbl, td[2])
                   /\ tbl[td[2]].status # "completed"

\* Faulty variant of the filters: the agent filter is not applied.
NextCandidates_NoAgentFilter(tbl, dp, stream, agent) ==
    {t \in 1..Len(tbl) :
        /\ tbl[t].status = "pending"
        /\ ~HasIncompleteDep(tbl, dp, t)
        /\ (stream # NoStream => tbl[t].stream_id = stream)}

\* Faulty variant of the status test: tasks in progress are candidates as well.
NextCandidates_IncludesInProgress(tbl, dp, stream, agent) ==
    {t \in 1..Len(tbl) :
        /\ tbl[t].status \in {"pending", "in_progress"}
        /\ ~HasIncompleteDep(tbl, dp, t)
        /\ (stream # NoStream => tbl[t].stream_id = stream)
        /\ (agent # NULL => (tbl[t].agent = agent \/ tbl[t].agent = NULL))}

\* Faulty variant of the WHERE clause: the NOT EXISTS test on dependencies is left out.
NextCandidates_NoDependencyCheck(tbl, dp, stream, agent) ==
    {t \in 1..Len(tbl) :
        /\ tbl[t].status = "pending"
        /\ (stream # NoStream => tbl[t].stream_id = stream)
        /\ (agent # NULL => (tbl[t].agent = agent \/ tbl[t].agent = NULL))}

\* task.py 299-316: the WHERE clause with the optional stream and agent filters.
NextCandidates(tbl, dp, stream, agent) ==
    {t \in 1..Len(tbl) :
        /\ tbl[t].status = "pending"
        /\ ~HasIncompleteDep(tbl, dp, t)
        /\ (stream # NoStream => tbl[t].stream_id = stream)
        /\ (agent # NULL => (tbl[t].agent = agent \/ tbl[t].agent = NULL))}

\* Faulty variants of the order: by id only; by priority only (ties in any order).
OrderedBefore_IdOnly(tbl, t, u) == t <= u

OrderedBefore_PriorityOnly(tbl, t, u) == tbl[t].priority <= tbl[u].priority

\* task.py 318: ORDER BY t.priority ASC, t.id ASC.
OrderedBefore(tbl, t, u) ==
    \/ tbl[t].priority < tbl[u].priority
    \/ (tbl[t].priority = tbl[u].priority /\ t <= u)

\* task.py 318-323: LIMIT 1 and fetchone(): a row that no other row precedes in
\* the ORDER BY (SQL leaves the order of rows that compare equal open), or None.
NextRows(tbl, dp, stream, agent) ==
    LET c == NextCandidates(tbl, dp, stream, agent) IN
    IF c = {} THEN {NoTask}
    ELSE {t \in c : \A u \in c : OrderedBefore(tbl, t, u)}

\* task.py 289-297: the command starts and opens its connection.
NextStart(p, stream, agent) ==
    /\ Start(p, [cmd |-> "next", stream |-> stream, agent |-> agent], "next_query")
    /\ UNCHANGED db

\* Faulty variant of the result: no row is reported as a not-found error.
NextQuery_NoneIsError(p) ==
    /\ pc[p] = "next_query"
    /\ \E r \in NextRows(tasks, deps, args[p].stream, args[p].agent) :
          /\ exit' = [exit EXCEPT ![p] = IF r = NoTask THEN EXIT_NOT_FOUND ELSE EXIT_SUCCESS]
          /\ out' = [out EXCEPT ![p] = IF r = NoTask THEN "no_task" ELSE "task"]
          /\ ret' = [ret EXCEPT ![p] = r]
    /\ pc' = [pc EXCEPT ![p] = "idle"]
    /\ UNCHANGED <<args, row>>
    /\ UNCHANGED db

\* task.py 299-335: one SELECT on the committed database; no row is a normal
\* result (the command returns, exit code 0).  The command line of the call stays
\* on record until the slot runs its next command.
NextQuery(p) ==
    /\ pc[p] = "next_query"
    /\ \E r \in NextRows(tasks, deps, args[p].stream, args[p].agent) :
          /\ exit' = [exit EXCEPT ![p] = EXIT_SUCCESS]
          /\ out' = [out EXCEPT ![p] = IF r = NoTask THEN "no_task" ELSE "task"]
          /\ ret' = [ret EXCEPT ![p] = r]
    /\ pc' = [pc EXCEPT ![p] = "idle"]
    /\ UNCHANGED <<args, row>>
    /\ UNCHANGED db

\* ---------------------------------------------------------------- specifications
OptAgents == Agents \cup {NULL}
OptStreams == Streams \cup {NoStream}

\* The process slot that creates, updates and hands off tasks and edits the
\* dependencies, and the slot of the agent that claims.
Operators == {"p1"}
Claimers == {"p2"}

\* The claim protocol: tasks are created unassigned with the default priority,
\* their status is set by task update and their assignment by claim and handoff.
\* The other commands hold the write lock for one step only, so the claimer's
\* BEGIN IMMEDIATE never times out here (ClaimBusy is a step of SpecRace).
Next ==
    \/ \E p \in Operators, st \in OptStreams : TaskCreate(p, NULL, DefaultPriority, st)
    \/ \E p \in Operators, t \in TaskIds, st \in Statuses : UpdateRead(p, t, st, NULL, NoPriority)
    \/ \E p \in Procs : UpdateWrite(p)
    \/ \E p \in Procs : UpdateBusy(p)
    \/ \E p \in Claimers, t \in TaskIds, a \in Agents : ClaimStart(p, t, a)
    \/ \E p \in Procs : ClaimBegin(p)
    \/ \E p \in Procs : ClaimUpdate(p)
    \/ \E p \in Procs : ClaimLog(p)
    \/ \E p \in Procs : ClaimCommit(p)
    \/ \E p \in Procs : ClaimFails(p)
    \/ \E p \in Operators, t \in TaskIds : HandoffRead(p, "me", "qa", t)
    \/ \E p \in Procs : HandoffWrite(p)
    \/ \E p \in Procs : HandoffBusy(p)
    \/ \E p \in Operators, t \in TaskIds : DepsAdd(p, t, 1)
    \/ \E p \in Operators, t \in TaskIds : DepsRemove(p, t, 1)
    \/ \E p \in Operators : NextStart(p, NoStream, NULL)
    \/ \E p \in Procs : NextQuery(p)

Spec == Init /\ [][Next]_vars

\* The selector: tasks unassigned or assigned to one agent, with two priorities
\* and any stream, every dependency edge, every status; next with every filter
\* (the assigned agent, another agent, none).
NextSel ==
    \/ \E p \in Operators, ag \in {NULL, "me"}, pr \in {1, 2}, st \in OptStreams :
          TaskCreate(p, ag, pr, st)
    \/ \E p \in Operators, t \in TaskIds, st \in Statuses : UpdateRead(p, t, st, NULL, NoPriority)
    \/ \E p \in Procs : UpdateWrite(p)
    \/ \E p \in Operators, t \in TaskIds, d \in TaskIds : DepsAdd(p, t, d)
    \/ \E p \in Operators, t \in TaskIds, d \in TaskIds : DepsRemove(p, t, d)
    \/ \E p \in Operators, st \in OptStreams, ag \in OptAgents : NextStart(p, st, ag)
    \/ \E p \in Procs : NextQuery(p)

SpecSel == Init /\ [][NextSel]_vars

\* Two task claim commands on the same pending, unclaimed task, started at the
\* same time on two connections by any two agents.
InitRace ==
    /\ \E ag \in OptAgents, st \in OptStreams : tasks = <<NewTask(ag, DefaultPriority, st)>>
    /\ deps = {}
    /\ log = <<>>
    /\ lock = NoProc
    /\ txn = NoTxn
    /\ pc = [p \in Procs |-> "claim_begin"]
    /\ args \in [Procs -> {[cmd |-> "claim", task |-> 1, agent |-> a] : a \in Agents}]
    /\ row = [p \in Procs |-> NoRow]
    /\ exit = [p \in Procs |-> NoExit]
    /\ out = [p \in Procs |-> "none"]
    /\ ret = [p \in Procs |-> NoTask]

NextRace ==
    \/ \E p \in Procs : ClaimBegin(p)
    \/ \E p \in Procs : ClaimBusy(p)
    \/ \E p \in Procs : ClaimUpdate(p)
    \/ \E p \in Procs : ClaimLog(p)
    \/ \E p \in Procs : ClaimCommit(p)
    \/ \E p \in Procs : ClaimFails(p)

SpecRace == InitRace /\ [][NextRace]_vars

\* Readers next to a writer: two unassigned tasks with any priorities, streams and
\* dependency edges between them; the operator sets statuses and calls next, a
\* second connection only calls next.
InitRead ==
    /\ \E pr1 \in {1, 2}, pr2 \in {1, 2}, st1 \in OptStreams, st2 \in OptStreams :
          tasks = <<NewTask(NULL, pr1, st1), NewTask(NULL, pr2, st2)>>
    /\ deps \in SUBSET {<<1, 2>>, <<2, 1>>}
    /\ log = <<>>
    /\ lock = NoProc
    /\ txn = NoTxn
    /\ pc = [p \in Procs |-> "idle"]
    /\ args = [p \in Procs |-> NoArgs]
    /\ row = [p \in Procs |-> NoRow]
    /\ exit = [p \in Procs |-> NoExit]
    /\ out = [p \in Procs |-> "none"]
    /\ ret = [p \in Procs |-> NoTask]

NextRead ==
    \/ \E p \in Operators, t \in TaskIds, st \in {"pending", "completed"} :
          UpdateRead(p, t, st, NULL, NoPriority)
    \/ \E p \in Procs : UpdateWrite(p)
    \/ \E p \in Procs, st \in OptStreams, ag \in {NULL, "me"} : NextStart(p, st, ag)
    \/ \E p \in Procs : NextQuery(p)

SpecRead == InitRead /\ [][NextRead]_vars

\* Input validation: task create and task update are given priorities and
\* statuses inside and outside the allowed ranges (the empty string is what
\* `--status ""` passes), while a claimer takes and releases the write lock.
BadStatuses == {"", "bogus"}
BadPriorities == {-1, 4}

NextVal ==
    \/ \E p \in Operators, pr \in BadPriorities \cup {0, 3} :
          TaskCreate(p, NULL, pr, NoStream)
    \/ \E p \in Operators, t \in TaskIds, st \in BadStatuses \cup {NULL, "completed"},
          pr \in BadPriorities \cup {NoPriority, 1} :
          UpdateRead(p, t, st, NULL, pr)
    \/ \E p \in Procs : UpdateWrite(p)
    \/ \E p \in Procs : UpdateBusy(p)
    \/ \E p \in Claimers, t \in TaskIds : ClaimStart(p, t, "me")
    \/ \E p \in Procs : ClaimBegin(p)
    \/ \E p \in Procs : ClaimUpdate(p)
    \/ \E p \in Procs : ClaimLog(p)
    \/ \E p \in Procs : ClaimCommit(p)

SpecVal == Init /\ [][NextVal]_vars

\* The work loop of an agent: next(); claim the returned task; on success set
\* that task to completed; after a conflict or a busy failure, start over.  Each
\* process works for one agent.  What an agent does next is read off its last
\* command and the task it holds.
AgentOf(p) == IF p = "p1" THEN "me" ELSE "qa"

\* The task p's agent has claimed and not yet completed, if any.
HeldBy(p) ==
    {t \in 1..Len(tasks) : /\ tasks[t].claimed_by = AgentOf(p)
                           /\ tasks[t].status = "in_progress"}

\* The last command of p was a next() that returned a task.
HasNextResult(p) == args[p].cmd = "next" /\ out[p] = "task"

FlowComplete(p) ==
    \E t \in HeldBy(p) : UpdateSelect(p, t, "completed", NULL, NoPriority)

FlowClaim(p) ==
    /\ HeldBy(p) = {}
    /\ HasNextResult(p)
    /\ ClaimCall(p, ret[p], AgentOf(p))

FlowNext(p) ==
    /\ HeldBy(p) = {}
    /\ ~HasNextResult(p)
    /\ NextStart(p, NoStream, NULL)

AgentStep(p) ==
    \/ FlowNext(p)
    \/ NextQuery(p)
    \/ FlowClaim(p)
    \/ ClaimBegin(p)
    \/ ClaimBusy(p)
    \/ ClaimUpdate(p)
    \/ ClaimLog(p)
    \/ ClaimCommit(p)
    \/ FlowComplete(p)
    \/ UpdateWrite(p)
    \/ UpdateBusy(p)

\* The tasks reachable from the set S along at most n edges of dp.
RECURSIVE ReachFrom(_, _, _)
ReachFrom(dp, S, n) ==
    IF n = 0 THEN S
    ELSE ReachFrom(dp, S \cup {e[2] : e \in {x \in dp : x[1] \in S}}, n - 1)

\* No task of 1..n depends on itself through the edges of dp.
Acyclic(dp, n) ==
    \A t \in 1..n : t \notin ReachFrom(dp, {e[2] : e \in {x \in dp : x[1] = t}}, n)

\* All tasks pending, unassigned and unclaimed; any acyclic dependency graph.
InitFlow ==
    /\ tasks = [t \in 1..FlowTasks |-> NewTask(NULL, DefaultPriority, NoStream)]
    /\ deps \in {dp \in SUBSET {e \in (1..FlowTasks) \X (1..FlowTasks) : e[1] # e[2]} :
                    Acyclic(dp, FlowTasks)}
    /\ log = <<>>
    /\ lock = NoProc
    /\ txn = NoTxn
    /\ pc = [p \in Procs |-> "idle"]
    /\ args = [p \in Procs |-> NoArgs]
    /\ row = [p \in Procs |-> NoRow]
    /\ exit = [p \in Procs |-> NoExit]
    /\ out = [p \in Procs |-> "none"]
    /\ ret = [p \in Procs |-> NoTask]

NextFlow == \E p \in Procs : AgentStep(p)

\* Every agent process keeps running: whenever it has a step to take, it
\* eventually takes one.
SpecFlow == InitFlow /\ [][NextFlow]_vars /\ \A p \in Procs : WF_vars(AgentStep(p))

\* Two claims started together, each on either of two tasks.  The tasks start in
\* the states the commands can leave a row in: never claimed (any status set by
\* task update), or claimed by "me" and then left in progress, completed or
\* moved back to pending.
PairRows ==
    {[NewTask(NULL, DefaultPriority, NoStream) EXCEPT !.status = st] :
        st \in {"pending", "in_progress"}}
      \cup {[ClaimSet(NewTask(NULL, DefaultPriority, NoStream), "me") EXCEPT !.status = st] :
               st \in {"pending", "in_progress", "completed"}}

InitPair ==
    /\ tasks \in [1..2 -> PairRows]
    /\ deps = {}
    /\ log = <<>>
    /\ lock = NoProc
    /\ txn = NoTxn
    /\ pc = [p \in Procs |-> "claim_begin"]
    /\ args \in [Procs -> {[cmd |-> "claim", task |-> t, agent |-> a] :
                              t \in 1..2, a \in Agents}]
    /\ row = [p \in Procs |-> NoRow]
    /\ exit = [p \in Procs |-> NoExit]
    /\ out = [p \in Procs |-> "none"]
    /\ ret = [p \in Procs |-> NoTask]

SpecPair == InitPair /\ [][NextRace]_vars

\* ================================================================ properties
\* The positions of a running task claim.
ClaimPcs == {"claim_begin", "claim_locked", "claim_updated", "claim_logged"}

\* The 'claimed' entry a claim of task t by agent a appends, given t's row.
ClaimedEntry(r, t, a) ==
    [agent |-> a, stream_id |-> r.stream_id, task_id |-> t, action |-> "claimed"]

\* ---------------------------------------------------------------- C1
RaceDone == \A p \in Procs : pc[p] = "idle"
RaceWinners == {p \in Procs : exit[p] = EXIT_SUCCESS}

\* C1: of two claims started together on a pending, unclaimed task, whatever the
\* agents and the interleaving, exactly one succeeds and the other fails (never
\* both; one unless a storage error rolled a claim back), and once both have
\* returned the task is in_progress, claimed by the agent of the successful call.
C1_ExactlyOneClaimWins ==
    /\ [](RaceDone =>
            /\ Cardinality(RaceWinners) <= 1
            /\ (\A p \in Procs : out[p] # "error") => Cardinality(RaceWinners) = 1
            /\ RaceWinners # {} => /\ tasks[1].status = "in_progress"
                                   /\ tasks[1].claimed_by # NULL
            /\ RaceWinners = {} => tasks[1].claimed_by = NULL)
    /\ [][\A p \in Procs :
            (pc[p] \in ClaimPcs /\ exit'[p] = EXIT_SUCCESS)
               => tasks'[1].claimed_by = args[p].agent]_vars
    /\ [][tasks[1].claimed_by # NULL => tasks'[1].claimed_by = tasks[1].claimed_by]_vars

C1_Witness ==
    /\ RaceDone
    /\ \E p, q \in Procs : /\ exit[p] = EXIT_SUCCESS
                           /\ out[q] = "conflict"
    /\ tasks[1].status = "in_progress"
    /\ tasks[1].claimed_by \in Agents

\* ---------------------------------------------------------------- C2
\* C2: in every reachable state every task has claimed_by and claimed_at both NULL
\* or both set (in the committed table and in an open transaction's copy).
C2_ClaimedByIffClaimedAt ==
    /\ \A t \in 1..Len(tasks) : (tasks[t].claimed_by = NULL) <=> (tasks[t].claimed_at = NULL)
    /\ lock # NoProc =>
          \A t \in 1..Len(txn.tasks) :
              (txn.tasks[t].claimed_by = NULL) <=> (txn.tasks[t].claimed_at = NULL)

C2_Witness ==
    \E t \in 1..Len(tasks) :
        /\ tasks[t].claimed_by = "me"
        /\ tasks[t].claimed_at = Now
        /\ tasks[t].agent = "qa"
        /\ tasks[t].status = "completed"
        /\ <<2, 1>> \in deps

\* ---------------------------------------------------------------- C3
\* C3: a successful claim of task T by agent a leaves T with claimed_by = a,
\* claimed_at set, status in_progress and agent = a, appends exactly one log entry
\* ('claimed', a, T, T's stream id), and changes no other task and no dependency edge.
C3_ClaimEffect ==
    [][\A p \in Procs :
          (pc[p] \in ClaimPcs /\ exit'[p] = EXIT_SUCCESS) =>
              LET t == args[p].task
                  a == args[p].agent
              IN /\ Exists(tasks, t)
                 /\ Len(tasks') = Len(tasks)
                 /\ tasks'[t].claimed_by = a
                 /\ tasks'[t].claimed_at # NULL
                 /\ tasks'[t].status = "in_progress"
                 /\ tasks'[t].agent = a
                 /\ tasks'[t].stream_id = tasks[t].stream_id
                 /\ tasks'[t].priority = tasks[t].priority
                 /\ \A u \in 1..Len(tasks) : u # t => tasks'[u] = tasks[u]
                 /\ log' = Append(log, ClaimedEntry(tasks[t], t, a))
                 /\ deps' = deps]_vars

C3_Witness ==
    /\ Len(tasks) = 2
    /\ \E p \in Procs : exit[p] = EXIT_SUCCESS /\ out[p] = "ok" /\ ret[p] = 2
    /\ tasks[2].claimed_by = "qa" /\ tasks[2].agent = "qa" /\ tasks[2].status = "in_progress"
    /\ tasks[2].stream_id = 1
    /\ tasks[1].claimed_by = NULL
    /\ log = <<ClaimedEntry(tasks[2], 2, "qa")>>
    /\ deps = {<<2, 1>>}

\* ---------------------------------------------------------------- C4
\* C4: a claim of T by a that holds the write lock while T exists, is pending and
\* has claimed_by NULL or a gets its update through, and then succeeds unless the
\* log INSERT or the COMMIT raises; a re-claim by a of a task a claimed earlier and
\* that was set back to pending is such a claim.
C4_ClaimSucceedsWhenEligible ==
    [][\A p \in Procs :
          LET t == args[p].task
              a == args[p].agent
          IN /\ (/\ pc[p] = "claim_locked"
                 /\ pc'[p] # "claim_locked"
                 /\ Exists(tasks, t)
                 /\ tasks[t].status = "pending"
                 /\ tasks[t].claimed_by \in {NULL, a}) => pc'[p] = "claim_updated"
             /\ (/\ pc[p] \in {"claim_updated", "claim_logged"}
                 /\ pc'[p] = "idle"
                 /\ out'[p] # "error") => exit'[p] = EXIT_SUCCESS]_vars

\* A committed re-claim: the same agent's second 'claimed' entry for the same task.
C4_Witness ==
    /\ Len(log) = 2
    /\ log[1].action = "claimed" /\ log[2] = log[1]
    /\ \E p \in Procs : exit[p] = EXIT_SUCCESS /\ ret[p] = log[2].task_id
    /\ tasks[log[2].task_id].claimed_by = log[2].agent
    /\ tasks[log[2].task_id].status = "in_progress"

\* ---------------------------------------------------------------- C5
\* C5: a claim on a task whose status is not pending fails, for every agent (the
\* holder of the claim included): a claim succeeds only on a pending task; and a
\* failed claim leaves the task table and the log unchanged.
C5_NonPendingClaimFails ==
    [][\A p \in Procs :
          LET t == args[p].task IN
          pc[p] \in ClaimPcs =>
             /\ exit'[p] = EXIT_SUCCESS => (Exists(tasks, t) /\ tasks[t].status = "pending")
             /\ (/\ pc[p] = "claim_locked"
                 /\ pc'[p] # "claim_locked"
                 /\ Exists(tasks, t)
                 /\ tasks[t].status # "pending")
                   => (pc'[p] = "idle" /\ out'[p] = "conflict" /\ exit'[p] # EXIT_SUCCESS)
             /\ (pc'[p] = "idle" /\ exit'[p] # EXIT_SUCCESS) => (tasks' = tasks /\ log' = log)]_vars

\* The holder's own second claim on its in_progress task has failed.
C5_Witness ==
    \E p \in Procs :
        /\ out[p] = "conflict"
        /\ Exists(tasks, ret[p])
        /\ tasks[ret[p]].status = "in_progress"
        /\ tasks[ret[p]].claimed_by # NULL
        /\ Len(log) = 1

\* ---------------------------------------------------------------- C6
\* C6: once T is claimed by a, claimed_by(T) stays a in every later state, and a
\* claim on T by another agent b fails, whatever T's status is by then.
C6_ClaimantNeverReplaced ==
    [][/\ \A t \in 1..Len(tasks) :
             tasks[t].claimed_by # NULL =>
                (Exists(tasks', t) /\ tasks'[t].claimed_by = tasks[t].claimed_by)
       /\ \A p \in Procs :
             LET t == args[p].task IN
             (/\ pc[p] = "claim_locked"
              /\ pc'[p] # "claim_locked"
              /\ Exists(tasks, t)
              /\ tasks[t].claimed_by \notin {NULL, args[p].agent})
                => (pc'[p] = "idle" /\ out'[p] = "conflict" /\ exit'[p] # EXIT_SUCCESS)]_vars

\* A claim on a claimed task that was set back to pending has failed.
C6_Witness ==
    \E p \in Procs :
        /\ out[p] = "conflict"
        /\ Exists(tasks, ret[p])
        /\ tasks[ret[p]].status = "pending"
        /\ tasks[ret[p]].claimed_by = "me"
        /\ Len(log) = 1

\* ---------------------------------------------------------------- C7
\* C7: a claim whose conditional update matched no row exits with EXIT_CONFLICT (3),
\* not with the generic EXIT_ERROR (1).
C7_ConflictExitCode ==
    \A p \in Procs : out[p] = "conflict" => exit[p] = EXIT_CONFLICT

\* ---------------------------------------------------------------- C8
\* C8: every step of a claim on T either leaves the committed task table and log
\* as they were, or publishes the ownership/status change of T together with its
\* 'claimed' entry; a claim that fails after its update is rolled back whole.
C8_ClaimAllOrNothing ==
    [][\A p \in Procs :
          LET t == args[p].task
              a == args[p].agent
          IN (pc[p] \in ClaimPcs /\ pc'[p] # pc[p]) =>
                \/ (tasks' = tasks /\ log' = log)
                \/ /\ Exists(tasks, t)
                   /\ tasks'[t].claimed_by = a
                   /\ tasks'[t].status = "in_progress"
                   /\ tasks[t].status = "pending"
                   /\ log' = Append(log, ClaimedEntry(tasks[t], t, a))]_vars

\* A claim failed after its update: neither the ownership nor the entry is there.
C8_Witness ==
    \E p \in Procs :
        /\ out[p] = "error"
        /\ Exists(tasks, ret[p])
        /\ tasks[ret[p]].claimed_by = NULL
        /\ tasks[ret[p]].status = "pending"
        /\ log = <<>>
        /\ lock = NoProc

\* ---------------------------------------------------------------- C9
\* C9: whatever the filters, next() never returns a task that has a dependency
\* edge to a task whose status is not completed (pending, in_progress, blocked
\* and cancelled dependencies all disqualify it).
C9_NextSkipsUnmetDeps ==
    [][\A p \in Procs :
          (pc[p] = "next_query" /\ pc'[p] = "idle" /\ ret'[p] # NoTask) =>
              /\ Exists(tasks, ret'[p])
              /\ \A d \in 1..Len(tasks) :
                    <<ret'[p], d>> \in deps => tasks[d].status = "completed"]_vars

\* next() has just found nothing: the only pending task depends on a cancelled one.
C9_Witness ==
    /\ \E p \in Procs : out[p] = "no_task"
    /\ Len(tasks) = 2
    /\ deps = {<<1, 2>>}
    /\ tasks[1].status = "pending"
    /\ tasks[2].status = "cancelled"

\* ---------------------------------------------------------------- C10
\* A pending task all of whose dependencies are completed (none is one case) and
\* that passes the filters of the call.
Selectable(t, stream, agent) ==
    /\ tasks[t].status = "pending"
    /\ \A d \in 1..Len(tasks) : <<t, d>> \in deps => tasks[d].status = "completed"
    /\ stream = NoStream \/ tasks[t].stream_id = stream
    /\ agent = NULL \/ tasks[t].agent \in {agent, NULL}

\* C10: a pending task is selectable as soon as all its dependencies are completed:
\* the next() that follows returns it, or a task that sorts before it.  With A
\* (task 1) and B (task 2) depending on A, next() returns A while both are pending
\* and B once A is completed.
C10_SelectableOnceDepsCompleted ==
    [][\A p \in Procs :
          (pc[p] = "next_query" /\ pc'[p] = "idle") =>
              LET r == ret'[p] IN
              /\ \A t \in 1..Len(tasks) :
                    Selectable(t, args[p].stream, args[p].agent) =>
                       /\ r # NoTask
                       /\ \/ r = t
                          \/ tasks[r].priority < tasks[t].priority
                          \/ (tasks[r].priority = tasks[t].priority /\ r < t)
              /\ (/\ args[p].stream = NoStream /\ args[p].agent = NULL
                  /\ Len(tasks) = 2 /\ deps = {<<2, 1>>}
                  /\ tasks[2].status = "pending") =>
                     /\ tasks[1].status = "pending" => r = 1
                     /\ tasks[1].status = "completed" => r = 2]_vars

\* next() has just returned B: A, its only dependency, is completed.
C10_Witness ==
    /\ \E p \in Procs : out[p] = "task" /\ ret[p] = 2
    /\ Len(tasks) = 2
    /\ deps = {<<2, 1>>}
    /\ tasks[1].status = "completed"
    /\ tasks[2].status = "pending"

\* ---------------------------------------------------------------- C11
\* C11: the task next() returns is eligible (pending, every dependency completed,
\* passing the filters) and no eligible task has a lower priority number, nor the
\* same priority number and a lower id.
C11_NextReturnsLowestPriorityThenId ==
    [][\A p \in Procs :
          (pc[p] = "next_query" /\ pc'[p] = "idle" /\ ret'[p] # NoTask) =>
              LET r == ret'[p] IN
              /\ r \in 1..Len(tasks)
              /\ Selectable(r, args[p].stream, args[p].agent)
              /\ \A t \in 1..Len(tasks) :
                    Selectable(t, args[p].stream, args[p].agent) =>
                       /\ tasks[r].priority <= tasks[t].priority
                       /\ tasks[r].priority = tasks[t].priority => r <= t]_vars

\* next() without filters has returned task 2, whose priority number is lower than
\* that of task 1; both are pending and have no dependency.
C11_Witness ==
    /\ \E p \in Procs : /\ out[p] = "task" /\ ret[p] = 2
                        /\ args[p] = [cmd |-> "next", stream |-> NoStream, agent |-> NULL]
    /\ Len(tasks) = 2
    /\ deps = {}
    /\ tasks[1].status = "pending" /\ tasks[2].status = "pending"
    /\ tasks[2].priority < tasks[1].priority

\* ---------------------------------------------------------------- C12
\* C12: with an agent filter a, next() returns only a task assigned to a or to
\* nobody; with a stream filter s, only a task of stream s.
C12_NextHonoursFilters ==
    [][\A p \in Procs :
          (pc[p] = "next_query" /\ pc'[p] = "idle" /\ ret'[p] # NoTask) =>
              LET r == ret'[p] IN
              /\ args[p].agent # NULL => tasks[r].agent \in {args[p].agent, NULL}
              /\ args[p].stream # NoStream => tasks[r].stream_id = args[p].stream]_vars

\* next() filtered by agent "qa" and stream 1 has passed over task 1, which is
\* pending, sorts first and is assigned to "me", and returned the unassigned task 2.
C12_Witness ==
    /\ \E p \in Procs : /\ out[p] = "task" /\ ret[p] = 2
                        /\ args[p] = [cmd |-> "next", stream |-> 1, agent |-> "qa"]
    /\ Len(tasks) = 2
    /\ deps = {}
    /\ tasks[1].status = "pending" /\ tasks[1].agent = "me" /\ tasks[1].stream_id = 1
    /\ tasks[2].status = "pending" /\ tasks[2].agent = NULL /\ tasks[2].stream_id = 1
    /\ tasks[1].priority <= tasks[2].priority

\* ---------------------------------------------------------------- C13
\* C13: next() always ends successfully; it returns no task exactly when no task
\* is eligible under its filters, and a task whenever one is.
C13_NoneIffNothingEligible ==
    [][\A p \in Procs :
          (pc[p] = "next_query" /\ pc'[p] = "idle") =>
              LET eligible == {t \in 1..Len(tasks) :
                                  Selectable(t, args[p].stream, args[p].agent)} IN
              /\ exit'[p] = EXIT_SUCCESS
              /\ (ret'[p] = NoTask) <=> (eligible = {})
              /\ (out'[p] = "no_task") <=> (eligible = {})
              /\ (out'[p] = "task") <=> (eligible # {})]_vars

\* next() without filters has returned no task with exit code 0: task 1 is
\* cancelled and the pending task 2 depends on it.
C13_Witness ==
    /\ \E p \in Procs : /\ out[p] = "no_task" /\ ret[p] = NoTask /\ exit[p] = EXIT_SUCCESS
                        /\ args[p] = [cmd |-> "next", stream |-> NoStream, agent |-> NULL]
    /\ Len(tasks) = 2
    /\ deps = {<<2, 1>>}
    /\ tasks[1].status = "cancelled"
    /\ tasks[2].status = "pending"

\* ---------------------------------------------------------------- C14
\* A step of next() by process p: the start of the command, or its query.
NextStep(p) ==
    \/ pc[p] = "idle" /\ pc'[p] = "next_query"
    \/ pc[p] = "next_query" /\ pc'[p] = "idle"

\* C14: next() is a pure, deterministic read.  No step of it changes a task, a
\* dependency edge or the log; and a next() returns the task that the operator's
\* last next() with the same filters returned, when the operator (the only
\* connection that writes) has run no command since, so that no write was
\* committed in between.
C14_NextIsPureAndDeterministic ==
    [][/\ \A p \in Procs : NextStep(p) => UNCHANGED <<tasks, deps, log>>
       /\ \A p \in Procs, q \in Operators :
             (/\ p # q
              /\ pc[p] = "next_query" /\ pc'[p] = "idle"
              /\ pc[q] = "idle" /\ args[q].cmd = "next"
              /\ args[q].stream = args[p].stream
              /\ args[q].agent = args[p].agent) =>
                 ret'[p] = ret[q]]_vars

\* Both connections have called next() for stream 1 and both were given task 2;
\* task 1, of the same stream and priority, has been completed by an update.
C14_Witness ==
    /\ \A p \in Procs : /\ pc[p] = "idle" /\ out[p] = "task" /\ ret[p] = 2
                        /\ args[p] = [cmd |-> "next", stream |-> 1, agent |-> NULL]
    /\ tasks[1].status = "completed" /\ tasks[2].status = "pending"
    /\ tasks[1].stream_id = 1 /\ tasks[1].priority = tasks[2].priority
    /\ deps = {<<2, 1>>}

\* ---------------------------------------------------------------- C15
\* The tasks n or fewer dependency edges away from a task of S.
RECURSIVE Closure(_, _)
Closure(S, n) ==
    IF n = 0 THEN S
    ELSE Closure(S \cup {d \in 1..Len(tasks) : \E s \in S : <<s, d>> \in deps}, n - 1)

\* The tasks t depends on, directly or through other tasks.
DependsOn(t) == Closure({d \in 1..Len(tasks) : <<t, d>> \in deps}, Len(tasks))

\* t lies on a dependency cycle; the tasks of the cycles through t.
OnCycle(t) == t \in DependsOn(t)
CycleOf(t) == {u \in DependsOn(t) : t \in DependsOn(u)}

\* C15 as stated: next() never returns a task that lies on a dependency cycle.
\* It does: task update sets a status without consulting the dependencies, and
\* once the other task of a cycle is completed that way the pending one is eligible.
C15_CycleNeverSelectable ==
    [][\A p \in Procs :
          (pc[p] = "next_query" /\ pc'[p] = "idle" /\ ret'[p] # NoTask) =>
              ~OnCycle(ret'[p])]_vars

\* C15, amended: next() never returns a task on a dependency cycle while no task
\* of its cycles is completed; it returns one only after a task update has set a
\* task of the cycle to completed.
C15_CycleSelectableOnlyAfterCompletion ==
    [][\A p \in Procs :
          (pc[p] = "next_query" /\ pc'[p] = "idle" /\ ret'[p] # NoTask
           /\ OnCycle(ret'[p])) =>
              \E u \in CycleOf(ret'[p]) : tasks[u].status = "completed"]_vars

\* Tasks 1 and 2 depend on each other; task 2 was set to completed and next() has
\* returned task 1.
C15_Witness ==
    /\ deps = {<<1, 2>>, <<2, 1>>}
    /\ Len(tasks) = 2
    /\ tasks[1].status = "pending" /\ tasks[2].status = "completed"
    /\ \E p \in Procs : out[p] = "task" /\ ret[p] = 1 /\ args[p].cmd = "next"

\* ---------------------------------------------------------------- C16
\* C16: deps add of a task to itself ends with the validation error and leaves
\* the dependency edges as they were, whether or not the task exists and whether
\* or not another connection holds the write lock (the store is not opened).
C16_SelfDependencyRejected ==
    [][\A p \in Procs, t \in TaskIds :
          DepsAdd(p, t, t) =>
              /\ exit'[p] = EXIT_VALIDATION
              /\ out'[p] = "validation"
              /\ UNCHANGED <<tasks, deps, log>>]_vars

\* A self-dependency was rejected as invalid while the task table was still empty
\* and a claim on another connection held the write lock.
C16_Witness ==
    /\ \E p \in Operators : out[p] = "validation" /\ exit[p] = EXIT_VALIDATION
    /\ tasks = <<>>
    /\ deps = {}
    /\ lock \in Claimers

\* ---------------------------------------------------------------- C17
\* C17: every dependency edge joins two different, existing tasks (the table is
\* the set of its rows: the primary key admits a pair once); deps add naming a
\* task that does not exist ends with the not-found error, deps add of a pair
\* that is already there ends with the validation error, and neither changes the
\* edges.
C17_DependencyEdgesWellFormed ==
    /\ [](\A e \in deps : /\ e[1] # e[2]
                          /\ e[1] \in 1..Len(tasks)
                          /\ e[2] \in 1..Len(tasks))
    /\ [][\A p \in Procs, t \in TaskIds, d \in TaskIds :
             (DepsAdd(p, t, d) /\ t # d /\ (~Exists(tasks, t) \/ ~Exists(tasks, d))) =>
                 /\ exit'[p] = EXIT_NOT_FOUND
                 /\ deps' = deps]_vars
    /\ [][\A p \in Procs, t \in TaskIds, d \in TaskIds :
             (DepsAdd(p, t, d) /\ <<t, d>> \in deps /\ ~Busy(p)) =>
                 /\ exit'[p] = EXIT_VALIDATION
                 /\ out'[p] = "duplicate"
                 /\ deps' = deps]_vars

\* Both edges between tasks 1 and 2 are present and a second deps add of one of
\* them has just been rejected.
C17_Witness ==
    /\ Len(tasks) = 2
    /\ deps = {<<1, 2>>, <<2, 1>>}
    /\ \E p \in Procs : out[p] = "duplicate" /\ exit[p] = EXIT_VALIDATION

\* ---------------------------------------------------------------- C18
\* C18: the activity log is append-only: no step shortens the committed log or
\* changes an entry it already holds.
C18_LogAppendOnly ==
    [][/\ Len(log') >= Len(log)
       /\ \A i \in 1..Len(log) : log'[i] = log[i]]_vars

\* The entry of a claim is still the first entry after the completion of the
\* same task was logged behind it.
C18_Witness ==
    /\ Len(log) = 2
    /\ log[1].action = "claimed"
    /\ log[2].action = "completed"
    /\ log[2].task_id = log[1].task_id

\* ---------------------------------------------------------------- C19
\* The log has grown by exactly one entry, with this action, agent and task.
Logged(action, agent, t) ==
    /\ Len(log') = Len(log) + 1
    /\ log'[Len(log')].action = action
    /\ log'[Len(log')].agent = agent
    /\ log'[Len(log')].task_id = t

\* A claim, a handoff, an update commits successfully.
ClaimCommitted(p) ==
    pc[p] = "claim_logged" /\ pc'[p] = "idle" /\ exit'[p] = EXIT_SUCCESS
HandoffCommitted(p) ==
    pc[p] = "handoff_write" /\ pc'[p] = "idle" /\ exit'[p] = EXIT_SUCCESS
CompletionCommitted(p) ==
    /\ pc[p] = "update_write" /\ pc'[p] = "idle" /\ exit'[p] = EXIT_SUCCESS
    /\ args[p].status = "completed"

\* C19 as stated: every successful claim, every handoff and every task update
\* that sets the status to completed appends an entry to the activity log.  The
\* completion of a task that has no assigned agent appends none.
C19_EveryCompletionLogged ==
    [][\A p \in Procs :
          /\ ClaimCommitted(p) => Logged("claimed", args[p].agent, args[p].task)
          /\ HandoffCommitted(p) => Logged("handoff", args[p].from, args[p].task)
          /\ CompletionCommitted(p) =>
                Len(log') = Len(log) + 1 /\ log'[Len(log')].action = "completed"]_vars

\* C19, amended: every successful claim and every handoff appends an entry; a
\* task update that sets the status to completed appends one, for the assigned
\* agent, when the task row it read has an assigned agent, and none otherwise.
C19_OwnershipChangesLogged ==
    [][\A p \in Procs :
          /\ ClaimCommitted(p) => Logged("claimed", args[p].agent, args[p].task)
          /\ HandoffCommitted(p) => Logged("handoff", args[p].from, args[p].task)
          /\ CompletionCommitted(p) =>
                IF row[p].agent # NULL
                  THEN Logged("completed", row[p].agent, args[p].task)
                  ELSE log' = log]_vars

\* A task was handed off to "qa" and then completed: the log holds the handoff
\* and, behind it, the completion by "qa".
C19_Witness ==
    /\ Len(log) = 2
    /\ log[1].action = "handoff" /\ log[1].agent = "me"
    /\ log[2].action = "completed" /\ log[2].agent = "qa"
    /\ log[2].task_id = log[1].task_id
    /\ tasks[log[2].task_id].status = "completed"

\* ---------------------------------------------------------------- C20
\* C20: only a claim writes claimed_by and claimed_at: on every step that is not
\* the commit of a claim (task create, task update, handoff, deps add, deps
\* remove, and the uncommitted steps and the rollback of a claim) every task that
\* exists keeps both.
C20_OnlyClaimWritesClaimFields ==
    [][(\A p \in Procs : ~ClaimCommitted(p)) =>
          /\ Len(tasks') >= Len(tasks)
          /\ \A t \in 1..Len(tasks) :
                /\ tasks'[t].claimed_by = tasks[t].claimed_by
                /\ tasks'[t].claimed_at = tasks[t].claimed_at]_vars

\* A task claimed by "me" was put back to pending by an update and handed off to
\* "qa": it is still claimed by "me", at the time of the claim.
C20_Witness ==
    /\ Len(log) = 2
    /\ log[1].action = "claimed" /\ log[2].action = "handoff"
    /\ log[2].task_id = log[1].task_id
    /\ tasks[log[1].task_id].status = "pending"
    /\ tasks[log[1].task_id].agent = "qa"
    /\ tasks[log[1].task_id].claimed_by = "me"
    /\ tasks[log[1].task_id].claimed_at = Now

\* ---------------------------------------------------------------------------
\* C21
\* ---------------------------------------------------------------------------

\* The state the claim protocol produces: in progress with a claimant.
ClaimedInProgress(tbl, t) ==
    tbl[t].status = "in_progress" /\ tbl[t].claimed_by # NULL

\* Some task update commits a change of status to in_progress.
UpdateToInProgress ==
    \E p \in Procs : /\ pc[p] = "update_write" /\ pc'[p] = "idle"
                     /\ exit'[p] = EXIT_SUCCESS
                     /\ args[p].status = "in_progress"

\* C21 as stated: a task enters the state 'in_progress with claimed_by set' only
\* by a successful claim step; no step of task update or handoff takes a task
\* from outside that state into it.
C21_EntersClaimedStateOnlyByClaim ==
    [][\A t \in 1..Len(tasks) :
          (~ClaimedInProgress(tasks, t) /\ ClaimedInProgress(tasks', t))
             => \E p \in Procs : ClaimCommitted(p) /\ args[p].task = t]_vars

\* C21 amended: a task whose claimed_by is unset enters the state 'in_progress
\* with claimed_by set' only by a successful claim step.  A task update that sets
\* the status to in_progress returns a task that was claimed before, and whose
\* claimed_by nothing has cleared, to that state; no other step enters it.
C21_UnclaimedEntersClaimedStateOnlyByClaim ==
    [][\A t \in 1..Len(tasks) :
          (~ClaimedInProgress(tasks, t) /\ ClaimedInProgress(tasks', t))
             => \/ \E p \in Procs : ClaimCommitted(p) /\ args[p].task = t
                \/ /\ tasks[t].claimed_by # NULL
                   /\ tasks'[t].claimed_by = tasks[t].claimed_by
                   /\ UpdateToInProgress]_vars

\* A claimed task was completed by an update and is in progress again, with the
\* claimant of the one claim on record.
C21_Witness ==
    /\ Len(log) = 2
    /\ log[1].action = "claimed" /\ log[2].action = "completed"
    /\ log[1].task_id = log[2].task_id
    /\ Exists(tasks, log[1].task_id)
    /\ ClaimedInProgress(tasks, log[1].task_id)

\* ---------------------------------------------------------------------------
\* C22
\* ---------------------------------------------------------------------------

\* The claim of p gives up at BEGIN IMMEDIATE because the write lock stayed taken.
ClaimTimedOut(p) ==
    pc[p] = "claim_begin" /\ pc'[p] = "idle" /\ out'[p] = "locked"

\* C22: a claim that cannot obtain the write lock within the busy timeout fails
\* with an error kind of its own, neither the conflict kind nor the generic
\* (fatal) kind, and leaves the tasks and the activity log unchanged.
C22_BusyClaimIsRetryableKind ==
    [][\A p \in Procs :
          ClaimTimedOut(p) => /\ exit'[p] \notin {EXIT_SUCCESS, EXIT_ERROR, EXIT_CONFLICT}
                              /\ UNCHANGED <<tasks, log>>]_vars

\* ---------------------------------------------------------------------------
\* C23
\* ---------------------------------------------------------------------------

\* C23: a handoff(from, to, T) on an existing task sets T's assigned agent to
\* `to`, appends exactly one log entry with action 'handoff', agent `from` and
\* T's stream id, and leaves T's status and every other field and task as they
\* were; on a task that does not exist it exits with EXIT_NOT_FOUND and changes
\* neither the tasks nor the log.
C23_HandoffReassignsAndLogs ==
    [][\A p \in Procs :
          /\ HandoffCommitted(p) =>
                LET t == args[p].task IN
                /\ tasks' = [tasks EXCEPT ![t] = [@ EXCEPT !.agent = args[p].to]]
                /\ tasks'[t].status = tasks[t].status
                /\ log' = Append(log, LogEntry(args[p].from, t, "handoff",
                                               tasks[t].stream_id))
          /\ \A t \in TaskIds, f, g \in Agents :
                (HandoffRead(p, f, g, t) /\ ~Exists(tasks, t))
                   => /\ pc'[p] = "idle"
                      /\ exit'[p] = EXIT_NOT_FOUND
                      /\ UNCHANGED <<tasks, log>>]_vars

\* A task that was claimed and is in progress has been handed from "me" to "qa":
\* the log ends with the handoff entry and the status is still in_progress.
C23_Witness ==
    /\ Len(log) = 2
    /\ log[1].action = "claimed"
    /\ log[2].action = "handoff" /\ log[2].agent = "me"
    /\ log[2].task_id = log[1].task_id
    /\ Exists(tasks, log[2].task_id)
    /\ tasks[log[2].task_id].agent = "qa"
    /\ tasks[log[2].task_id].status = "in_progress"

\* ---------------------------------------------------------------------------
\* C24
\* ---------------------------------------------------------------------------

\* A priority, a status option that the commands must refuse.
InvalidPriority(pr) == pr # NoPriority /\ pr \notin 0..3
InvalidStatus(st) == st # NULL /\ st \notin Statuses

\* The command of p is refused as invalid in its first step, without a step on
\* the store, and nothing is changed.
RejectedAtOnce(p) ==
    /\ pc'[p] = "idle"
    /\ exit'[p] = EXIT_VALIDATION
    /\ UNCHANGED db

\* C24: in every reachable state each task's status is one of the five statuses
\* and its priority is in 0..3; a task create or task update given an
\* out-of-range priority or an unknown status is rejected with the validation
\* exit code before the store is opened, and changes nothing.
C24_StatusAndPriorityValidated ==
    /\ [](\A t \in 1..Len(tasks) : /\ tasks[t].status \in Statuses
                                   /\ tasks[t].priority \in 0..3)
    /\ [][\A p \in Procs :
             /\ \A pr \in BadPriorities :
                   TaskCreate(p, NULL, pr, NoStream) => RejectedAtOnce(p)
             /\ \A t \in TaskIds, st \in BadStatuses \cup {NULL, "completed"},
                   pr \in BadPriorities \cup {NoPriority, 1} :
                   (UpdateRead(p, t, st, NULL, pr)
                      /\ (InvalidStatus(st) \/ InvalidPriority(pr)))
                     => RejectedAtOnce(p)]_vars

\* ---------------------------------------------------------------------------
\* C25
\* ---------------------------------------------------------------------------

\* The last command of q was a next() without filters that returned task t, and
\* no write committed since has changed that answer: next() would return t now.
NextReturned(q, t) ==
    /\ pc[q] = "idle"
    /\ args[q].cmd = "next" /\ args[q].stream = NoStream /\ args[q].agent = NULL
    /\ out[q] = "task" /\ ret[q] = t
    /\ t \in NextRows(tasks, deps, NoStream, NULL)

\* The claim of p, holding the write lock, runs its UPDATE on a task that a
\* next() without filters has returned.
ClaimOfReturnedTask(p) ==
    /\ pc[p] = "claim_locked" /\ pc'[p] # "claim_locked"
    /\ \E q \in Procs \ {p} : NextReturned(q, args[p].task)

\* C25 as stated: a task returned by next() without filters can be claimed by any
\* agent; with no write committed in between, the claim is not refused.
C25_ReturnedTaskClaimableByAnyAgent ==
    [][\A p \in Procs : ClaimOfReturnedTask(p) => pc'[p] = "claim_updated"]_vars

\* C25 amended: next() does not look at claimed_by, and a task that was claimed
\* and then put back to pending by task update keeps its claimed_by.  With no
\* write committed in between, the claim of a task returned by next() succeeds
\* exactly when the task's claimed_by is unset or names the claiming agent.
C25_ReturnedTaskClaimableUnlessClaimedByOther ==
    [][\A p \in Procs :
          ClaimOfReturnedTask(p) =>
             (pc'[p] = "claim_updated"
                <=> tasks[args[p].task].claimed_by \in {NULL, args[p].agent})]_vars

\* A task that was claimed before and returned by next() is being claimed again
\* by the agent its claimed_by names: the UPDATE has matched.
C25_Witness ==
    \E p \in Procs : \E q \in Procs \ {p} :
       /\ pc[p] = "claim_updated"
       /\ NextReturned(q, args[p].task)
       /\ tasks[args[p].task].claimed_by = args[p].agent

\* ---------------------------------------------------------------------------
\* C26
\* ---------------------------------------------------------------------------

\* The UPDATE of p's claim has matched: the claim succeeds unless the storage fails.
ClaimMatched(p) ==
    pc[p] = "claim_locked" /\ pc'[p] = "claim_updated"

\* Every task that t depends on is completed.
DependenciesCompleted(t) ==
    \A d \in TaskIds : (<<t, d>> \in deps /\ Exists(tasks, d))
                          => tasks[d].status = "completed"

\* C26 as stated: a claim on task T does not succeed while T has a dependency whose
\* status is not completed.
C26_ClaimRespectsDependencies ==
    [][\A p \in Procs : ClaimMatched(p) => DependenciesCompleted(args[p].task)]_vars

\* C26 amended: the claim itself does not look at dependencies; they are enforced
\* by next() alone.  When the claimed task is one that next() returned, with no
\* write committed in between, all its dependencies are completed at the moment
\* the claim succeeds.
C26_ClaimOfReturnedTaskRespectsDependencies ==
    [][\A p \in Procs :
          (ClaimMatched(p) /\ ClaimOfReturnedTask(p))
             => DependenciesCompleted(args[p].task)]_vars

\* A task that has a dependency was returned by next() and its claim has matched.
C26_Witness ==
    \E p \in Procs : \E q \in Procs \ {p} :
       /\ pc[p] = "claim_updated"
       /\ NextReturned(q, args[p].task)
       /\ \E d \in TaskIds : <<args[p].task, d>> \in deps /\ Exists(tasks, d)

\* ---------------------------------------------------------------------------
\* C27
\* ---------------------------------------------------------------------------

\* The number of 'claimed' entries for task t in a log.
ClaimedCount(lg, t) ==
    Cardinality({i \in 1..Len(lg) : lg[i].action = "claimed" /\ lg[i].task_id = t})

\* The number of claims on task t that commit in this step.
ClaimsCommitting(t) ==
    IF \E p \in Procs : ClaimCommitted(p) /\ args[p].task = t THEN 1 ELSE 0

\* C27: in every reachable state each task with claimed_by = a has a log entry
\* with action 'claimed', that task and agent a; and the number of 'claimed'
\* entries for a task equals the number of successful claims on it: both start
\* at zero, a claim that commits adds exactly one entry for its task, and no
\* other step (a failed claim included) changes the number.
C27_ClaimedEntriesMatchClaims ==
    /\ [](\A t \in 1..Len(tasks) :
             tasks[t].claimed_by # NULL
                => \E i \in 1..Len(log) : /\ log[i].action = "claimed"
                                          /\ log[i].task_id = t
                                          /\ log[i].agent = tasks[t].claimed_by)
    /\ \A t \in TaskIds : ClaimedCount(log, t) = 0
    /\ [][\A t \in TaskIds :
             ClaimedCount(log', t) = ClaimedCount(log, t) + ClaimsCommitting(t)]_vars

\* One claim on a task has committed and a later claim on it was refused: the
\* log holds the one 'claimed' entry, for the task's claimant.
C27_Witness ==
    /\ Len(log) = 1
    /\ log[1].action = "claimed"
    /\ Exists(tasks, log[1].task_id)
    /\ tasks[log[1].task_id].claimed_by = log[1].agent
    /\ \E p \in Procs : /\ pc[p] = "idle" /\ out[p] = "conflict"
                        /\ ret[p] = log[1].task_id

\* ---------------------------------------------------------------------------
\* C28
\* ---------------------------------------------------------------------------

AllCompleted == \A t \in 1..Len(tasks) : tasks[t].status = "completed"

\* C28: from a state where all tasks are pending, unassigned and unclaimed and
\* the dependency graph is acyclic, when the agents only repeat next(), claim
\* the returned task, complete it on success, and retry after conflict and busy
\* failures, then under fair scheduling every task is eventually completed.
C28_EveryTaskEventuallyCompleted == <>AllCompleted

\* All tasks are completed, some of them had dependencies, and an agent has met
\* a conflict or a busy store on the way.
C28_Witness ==
    /\ AllCompleted
    /\ deps # {}
    /\ Len(log) = 2 * FlowTasks
    /\ \E p \in Procs : out[p] \in {"conflict", "locked"}

\* ---------------------------------------------------------------------------
\* C29
\* ---------------------------------------------------------------------------

\* C29: when a task update sets the status to completed on a task whose assigned
\* agent is set in the committed state the update overwrites, a 'completed' log
\* entry for that agent is committed with the status change, whatever claim and
\* handoff commands on the same task run concurrently.
C29_CompletionOfAssignedTaskLogged ==
    [][\A p \in Procs :
          (CompletionCommitted(p) /\ tasks[args[p].task].agent # NULL)
             => /\ tasks'[args[p].task].status = "completed"
                /\ Logged("completed", tasks[args[p].task].agent, args[p].task)]_vars

\* ---------------------------------------------------------------------------
\* C30
\* ---------------------------------------------------------------------------

\* p takes a step of its claim.
ClaimStep(p) == pc[p] \in ClaimPcs /\ pc'[p] # pc[p]

\* C30: claims on different tasks do not interfere.  No step of a claim changes
\* the row of a task other than the one it claims; and the claim that holds the
\* write lock is refused as a conflict exactly when its own task's row is not
\* pending or is claimed by another agent, whatever the state of the other tasks
\* and whatever other claims are running.
C30_ClaimsOnDifferentTasksIndependent ==
    [][\A p \in Procs :
          /\ ClaimStep(p) =>
                \A u \in 1..Len(tasks) : u # args[p].task => tasks'[u] = tasks[u]
          /\ (pc[p] = "claim_locked" /\ pc'[p] # "claim_locked") =>
                LET r == tasks[args[p].task] IN
                /\ pc'[p] \in {"claim_updated", "idle"}
                /\ pc'[p] = "idle" <=> out'[p] = "conflict"
                /\ out'[p] = "conflict"
                     <=> ~(r.status = "pending"
                             /\ r.claimed_by \in {NULL, args[p].agent})]_vars

\* Two claims on different tasks have both succeeded: both tasks are in
\* progress, each claimed by the agent of its claim.
C30_Witness ==
    /\ \A p \in Procs : pc[p] = "idle" /\ exit[p] = EXIT_SUCCESS
    /\ ret["p1"] # ret["p2"]
    /\ Len(log) = 2
    /\ \A t \in 1..2 : tasks[t].status = "in_progress" /\ tasks[t].claimed_by # NULL
    /\ tasks[1].claimed_by # tasks[2].claimed_by


====
